---------------------------- MODULE Spec2Model ----------------------------
(***************************************************************************)
(* A model of the Gemini research agent (src/app.py): the retrying model   *)
(* client GeminiAgent.run, the JSON extraction heuristic extract_json /    *)
(* safe_json_parse, the four stage pipeline run_research, the Streamlit    *)
(* session it writes and the Report tab that shows it (with the Show       *)
(* Report tab of the older src/main.py beside it).                         *)
(*                                                                         *)
(* A Python str is a Text: a sequence of symbols.  A symbol is one         *)
(* character the regular expressions and the JSON grammar look at ("`",    *)
(* "{", "}", "[", "]", ":", ",", " ") or a lexeme they treat as a unit     *)
(* (the tag "json", a JSON string literal, a JSON number, "null", a word   *)
(* of prose).  The empty str is << >>.  An Optional value is << >> for     *)
(* None and << v >> for a value v.                                         *)
(***************************************************************************)
EXTENDS Naturals, Integers, Sequences, FiniteSets, TLC

VARIABLES
    \* st.session_state (src/app.py:38-47)
    collected_facts, research_done, report_result, critique_result,
    \* sidebar: the text_input widget's value and the script run's user_topic
    topic_input, user_topic,
    \* run_research's position and locals
    pc, topic, plan, attempt, raised,
    \* history of the run: the agent.run calls it made (agent, prompt, returned
    \* text), the call in progress or last returned (generate_content calls,
    \* sleeps, last error caught, resp.text of the attempt that did not raise,
    \* returned text) and the number of
    \* generate_content calls of the whole run
    invocations, call, model_calls,
    \* the wall clock read by datetime.now(); it ticks once per started run
    clock,
    \* history: what triggered the last script run and whether the session was
    \* marked done when it began; the topics of the latest two runs started
    event, run_topics,
    \* the pure-function harness: an input text and what the helpers returned
    ex_text, ex_out

session_vars == <<collected_facts, research_done, report_result, critique_result>>
ui_vars == <<topic_input, user_topic>>
run_vars == <<pc, topic, plan, attempt, raised, invocations, call, model_calls>>
hist_vars == <<clock, event, run_topics>>
ex_vars == <<ex_text, ex_out>>
vars == <<session_vars, ui_vars, run_vars, hist_vars, ex_vars>>

-----------------------------------------------------------------------------
(* Optional values and Python truthiness *)

None == << >>
Some(v) == << v >>
IsNone(o) == o = None
Get(o) == o[1]
\* `if text`, `x or y` on an Optional[str]: None and "" are falsy
Truthy(o) == o # None /\ Get(o) # << >>

-----------------------------------------------------------------------------
(* Texts *)

\* the backtick character (a TLA+ string cannot hold one)
BT == "<bt>"
\* the class \s of the regular expressions
IsSpace(c) == c \in {" ", "\n"}

\* JSON string literals and the str each one denotes ("" for the empty string)
Unquote ==
    ("\"topic\"" :> "topic") @@ ("\"search_queries\"" :> "search_queries") @@
    ("\"focus_areas\"" :> "focus_areas") @@ ("\"k\"" :> "k") @@
    ("\"a\"" :> "a") @@ ("\"\"" :> "")
StrLits == DOMAIN Unquote
\* the quote character on its own: it opens and closes a JSON string written
\* symbol by symbol, which may hold any symbol but a quote (the quotes of a
\* string literal lexeme included) and a raw newline
QT == "\""
NumLits == {"1"}
StrOf(chunk) == IF chunk = "" THEN << >> ELSE << chunk >>

\* the index of the first symbol at or after i that is not whitespace
RECURSIVE SkipSpaces(_, _)
SkipSpaces(text, i) ==
    IF i <= Len(text) /\ IsSpace(text[i]) THEN SkipSpaces(text, i + 1) ELSE i

\* text contains part as a contiguous run of symbols
Contains(text, part) ==
    \E i \in 1..(Len(text) + 1) :
        /\ i + Len(part) - 1 <= Len(text)
        /\ \A k \in 1..Len(part) : text[i + k - 1] = part[k]

Min(S) == CHOOSE x \in S : \A y \in S : x <= y
Max(S) == CHOOSE x \in S : \A y \in S : x >= y

-----------------------------------------------------------------------------
(* extract_json: the two regular expressions of src/app.py:91 and :95,     *)
(* matched the way re.search matches them: the leftmost start that         *)
(* matches, a lazy .*? taking the shortest span that lets the rest match,  *)
(* a greedy .* the longest.                                                *)

\* the literal ``` at i
FenceAt(text, i) ==
    /\ i >= 1
    /\ i + 2 <= Len(text)
    /\ text[i] = BT /\ text[i + 1] = BT /\ text[i + 2] = BT

\* ```(?:json)?\s* matched at i: the index the group's \{ must stand at
GroupStart(text, i) ==
    SkipSpaces(text,
               IF i + 3 <= Len(text) /\ text[i + 3] = "json" THEN i + 4 ELSE i + 3)

\* the ends q of a group (\{.*?\}) that opens at p and is followed by \s*```
GroupEnds(text, p) ==
    {q \in (p + 1)..Len(text) :
        text[q] = "}" /\ FenceAt(text, SkipSpaces(text, q + 1))}

\* the pattern of line 91 matches with its ``` at i
FenceMatchAt(text, i) ==
    /\ FenceAt(text, i)
    /\ GroupStart(text, i) <= Len(text)
    /\ text[GroupStart(text, i)] = "{"
    /\ GroupEnds(text, GroupStart(text, i)) # {}

\* re.search(r"```(?:json)?\s*(\{.*?\})\s*```", text, re.DOTALL).group(1)
FenceSearch(text) ==
    LET starts == {i \in 1..Len(text) : FenceMatchAt(text, i)} IN
    IF starts = {} THEN None
    ELSE LET p == GroupStart(text, Min(starts)) IN
         Some(SubSeq(text, p, Min(GroupEnds(text, p))))

\* the ends of a group (\{.*\}) that opens at i
BraceEnds(text, i) == {j \in (i + 1)..Len(text) : text[j] = "}"}

\* the same search with a lazy .*?, which stops at the first closing brace
BraceSearchLazy(text) ==
    LET starts == {i \in 1..Len(text) : text[i] = "{" /\ BraceEnds(text, i) # {}} IN
    IF starts = {} THEN None
    ELSE Some(SubSeq(text, Min(starts), Min(BraceEnds(text, Min(starts)))))

\* re.search(r"(\{.*\})", text, re.DOTALL).group(1)
BraceSearch(text) ==
    LET starts == {i \in 1..Len(text) : text[i] = "{" /\ BraceEnds(text, i) # {}} IN
    IF starts = {} THEN None
    ELSE Some(SubSeq(text, Min(starts), Max(BraceEnds(text, Min(starts)))))

\* extract_json(text), text an Optional[str]
extract_json(text) ==
    IF ~Truthy(text) THEN None
    ELSE IF FenceSearch(Get(text)) # None THEN FenceSearch(Get(text))
    ELSE IF BraceSearch(Get(text)) # None THEN BraceSearch(Get(text))
    ELSE None

-----------------------------------------------------------------------------
(* json.loads: Python values and the JSON grammar over symbols *)

PyStr(s) == [t |-> "str", s |-> s]
PyInt(n) == [t |-> "int", n |-> n]
PyNone == [t |-> "NoneType"]
PyList(items) == [t |-> "list", items |-> items]
PyDict(d) == [t |-> "dict", d |-> d]

ParseFail == [ok |-> FALSE, val |-> PyNone, next |-> 0]
ParseOk(v, n) == [ok |-> TRUE, val |-> v, next |-> n]
SymAt(text, i) == IF i >= 1 /\ i <= Len(text) THEN text[i] ELSE "<eof>"
\* a dict with key k set to v (a repeated key keeps the last value)
DictSet(d, k, v) == [x \in (DOMAIN d) \cup {k} |-> IF x = k THEN v ELSE d[x]]

RECURSIVE ParseValue(_, _), ParseElements(_, _, _), ParseMembers(_, _, _)
\* one JSON value starting at or after i (leading whitespace skipped)
ParseValue(text, i) ==
    LET p == SkipSpaces(text, i)
        c == SymAt(text, p)
    IN  IF c \in StrLits THEN ParseOk(PyStr(StrOf(Unquote[c])), p + 1)
        ELSE IF c \in NumLits THEN ParseOk(PyInt(1), p + 1)
        ELSE IF c = "null" THEN ParseOk(PyNone, p + 1)
        ELSE IF c = QT THEN
            LET ends == {q \in (p + 1)..Len(text) : text[q] = QT} IN
            IF \/ ends = {}
               \/ \E k \in (p + 1)..(Min(ends) - 1) : text[k] \in StrLits \cup {"\n"}
            THEN ParseFail
            ELSE ParseOk(PyStr(SubSeq(text, p + 1, Min(ends) - 1)), Min(ends) + 1)
        ELSE IF c = "[" THEN
            IF SymAt(text, SkipSpaces(text, p + 1)) = "]"
            THEN ParseOk(PyList(<< >>), SkipSpaces(text, p + 1) + 1)
            ELSE ParseElements(text, p + 1, << >>)
        ELSE IF c = "{" THEN
            IF SymAt(text, SkipSpaces(text, p + 1)) = "}"
            THEN ParseOk(PyDict(<< >>), SkipSpaces(text, p + 1) + 1)
            ELSE ParseMembers(text, p + 1, << >>)
        ELSE ParseFail

\* value ("," value)* "]" with the values before i in acc
ParseElements(text, i, acc) ==
    LET v == ParseValue(text, i)
        k == SkipSpaces(text, v.next)
    IN  IF ~v.ok THEN ParseFail
        ELSE IF SymAt(text, k) = "," THEN ParseElements(text, k + 1, Append(acc, v.val))
        ELSE IF SymAt(text, k) = "]" THEN ParseOk(PyList(Append(acc, v.val)), k + 1)
        ELSE ParseFail

\* string ":" value ("," string ":" value)* "}" with the members before i in acc
ParseMembers(text, i, acc) ==
    LET p == SkipSpaces(text, i)
        key == SymAt(text, p)
        colon == SkipSpaces(text, p + 1)
        v == ParseValue(text, colon + 1)
        k == SkipSpaces(text, v.next)
    IN  IF key \notin StrLits \/ SymAt(text, colon) # ":" THEN ParseFail
        ELSE IF ~v.ok THEN ParseFail
        ELSE IF SymAt(text, k) = ","
             THEN ParseMembers(text, k + 1, DictSet(acc, Unquote[key], v.val))
        ELSE IF SymAt(text, k) = "}"
             THEN ParseOk(PyDict(DictSet(acc, Unquote[key], v.val)), k + 1)
        ELSE ParseFail

\* json.loads(payload), payload an Optional[str]: [raised, val].  None raises
\* TypeError, text that is not one JSON value (trailing whitespace allowed)
\* raises JSONDecodeError.
json_loads(payload) ==
    IF payload = None THEN [raised |-> TRUE, val |-> PyNone]
    ELSE LET r == ParseValue(Get(payload), 1) IN
         IF r.ok /\ SkipSpaces(Get(payload), r.next) = Len(Get(payload)) + 1
         THEN [raised |-> FALSE, val |-> r.val]
         ELSE [raised |-> TRUE, val |-> PyNone]

\* a safe_json_parse that, when its first candidate fails to parse, tries the
\* brace span (else the whole text) as a second one
safe_json_parseSecondTry(plan_text, fallback) ==
    LET first == IF Truthy(extract_json(plan_text))
                 THEN extract_json(plan_text) ELSE plan_text
        second == IF plan_text # None /\ BraceSearch(Get(plan_text)) # None
                  THEN BraceSearch(Get(plan_text)) ELSE plan_text
    IN  IF ~json_loads(first).raised THEN json_loads(first).val
        ELSE IF ~json_loads(second).raised THEN json_loads(second).val
        ELSE fallback

\* safe_json_parse(plan_text, fallback)
safe_json_parse(plan_text, fallback) ==
    LET payload == IF Truthy(extract_json(plan_text))
                   THEN extract_json(plan_text) ELSE plan_text
    IN  IF json_loads(payload).raised THEN fallback ELSE json_loads(payload).val

-----------------------------------------------------------------------------
(* The pydantic model ResearchPlan of src/app.py:68-71 and its constructor *)

\* a str field.  lax is the installed pydantic's coercion of a number to str
\* (version 1 coerces, version 2 rejects).
ValidStr(v, lax) ==
    IF v.t = "str" THEN Some(v.s)
    ELSE IF v.t = "int" /\ lax THEN Some(<< "1" >>)
    ELSE None

\* a list[str] field
ValidStrList(v, lax) ==
    IF v.t = "list" /\ \A k \in 1..Len(v.items) : ValidStr(v.items[k], lax) # None
    THEN Some([k \in 1..Len(v.items) |-> Get(ValidStr(v.items[k], lax))])
    ELSE None

PlanFields == {"topic", "search_queries", "focus_areas"}
NoPlan == [topic |-> << >>, search_queries |-> << >>, focus_areas |-> << >>]

\* [outcome, plan]: "ok" with the validated plan, "ValidationError" when a field
\* is missing or of the wrong type, "TypeError" when the argument after ** is
\* not a mapping.  Keys that are no field are ignored.
ResearchPlan(plan_dict, lax) ==
    IF plan_dict.t # "dict" THEN [outcome |-> "TypeError", plan |-> NoPlan]
    ELSE IF /\ PlanFields \subseteq DOMAIN plan_dict.d
            /\ ValidStr(plan_dict.d["topic"], lax) # None
            /\ ValidStrList(plan_dict.d["search_queries"], lax) # None
            /\ ValidStrList(plan_dict.d["focus_areas"], lax) # None
         THEN [outcome |-> "ok",
               plan |-> [topic |-> Get(ValidStr(plan_dict.d["topic"], lax)),
                         search_queries |->
                             Get(ValidStrList(plan_dict.d["search_queries"], lax)),
                         focus_areas |->
                             Get(ValidStrList(plan_dict.d["focus_areas"], lax))]]
         ELSE [outcome |-> "ValidationError", plan |-> NoPlan]

\* a fallback plan whose focus area is the topic again
fallback_planTopicOnly(t) ==
    PyDict([topic |-> PyStr(t),
            search_queries |-> PyList(<< PyStr(t) >>),
            focus_areas |-> PyList(<< PyStr(t) >>)])

\* fallback_plan of src/app.py:224
fallback_plan(t) ==
    PyDict([topic |-> PyStr(t),
            search_queries |-> PyList(<< PyStr(t) >>),
            focus_areas |-> PyList(<< PyStr(<< "General overview" >>) >>)])

\* the Planning step, src/app.py:224-230, on Triage's text: [outcome, plan]
\* with outcome "ok" or the exception that leaves run_research
Planning(t, triage_raw, lax) ==
    LET plan_dict == safe_json_parse(Some(triage_raw), fallback_plan(t))
        first == ResearchPlan(plan_dict, lax)
    IN  IF first.outcome = "ValidationError"
        THEN ResearchPlan(fallback_plan(t), lax)
        ELSE first

-----------------------------------------------------------------------------
(* GeminiAgent.run, src/app.py:117-130 *)

\* range(3)
MaxAttempts == 3
\* `if attempt < 2`
LastRetry == 2
\* time.sleep(2 * (attempt + 1))
BackoffUnit == 2

WillRetry(a) == a < LastRetry
\* a backoff that does not grow
BackoffFixed(a) == BackoffUnit
Backoff(a) == BackoffUnit * (a + 1)
\* f"(warning sign) Error from {self.name}: {e}"
Diagnostic(name, e) == << "(!) Error from ", name, ": " >> \o e
NoResponse == << "No response." >>
\* a return of the response text as it is, the empty str when there is none
TextAsIs(text) == IF text = None THEN << >> ELSE Get(text)
\* `return text if text else "No response."`
TextOrSentinel(text) == IF Truthy(text) THEN Get(text) ELSE NoResponse

AgentName ==
    [triage |-> "Triage Agent", research |-> "Research Agent",
     editor |-> "Editor Agent", critic |-> "Critic Agent"]
Stages == DOMAIN AgentName

\* the record of one agent.run call: the agent, the prompt it was given and,
\* once it has returned, what it returned
NewInvocation(stage, prompt) ==
    [agent |-> AgentName[stage], prompt |-> prompt, ret |-> None]
\* a call of agent.run that has made no attempt yet
NewCall(stage) ==
    [agent |-> AgentName[stage], calls |-> 0, failed |-> 0, sleeps |-> << >>,
     last_error |-> None, resp |-> None, ret |-> None]

-----------------------------------------------------------------------------
(* Inputs: what the user may type, what the model service may answer *)

\* the number of runs a behaviour may start
MaxRuns == 2

Topics == {<< "Solar Power in Rural India" >>, << "best shops in Agra" >>}
\* ex_topics, src/app.py:186-190
ex_topics ==
    {<< "What are the best businesses for young generation in India to start and earn?" >>}
TopicInputs == Topics \cup {<< >>}

\* the exceptions generate_content may raise, by their str()
Errors == {<< "503 unavailable" >>, << "429 quota ", "{", "}" >>}

Fence == << BT, BT, BT >>
GoodPlan ==
    << "{", "\"topic\"", ":", "\"a\"", ",", "\"search_queries\"", ":", "[", "\"a\"",
       "]", ",", "\"focus_areas\"", ":", "[", "\"k\"", "]", "}" >>
\* the texts resp.text may hold after the Triage prompt
TriageTexts ==
    { << "x" >>,
      GoodPlan,
      Fence \o << "json", "\n" >> \o GoodPlan \o << "\n" >> \o Fence,
      << "x", " " >> \o GoodPlan,
      Fence \o << "{", " " >> \o Fence \o << "json" >> \o GoodPlan \o Fence,
      << "1" >>,
      << "[", "\"a\"", "]" >>,
      << "\"a\"" >>,
      << "null" >>,
      << "{", "\"topic\"", ":", "\"a\"", "}" >>,
      << "{", "\"topic\"", ":", "\"a\"", ",", "}" >>,
      << "{", "\"topic\"", ":", "[", "]", ",", "\"search_queries\"", ":", "[", "\"a\"",
         "]", ",", "\"focus_areas\"", ":", "[", "\"k\"", "]", "}" >>,
      << "{", "\"topic\"", ":", "1", ",", "\"search_queries\"", ":", "[", "\"a\"",
         "]", ",", "\"focus_areas\"", ":", "[", "\"k\"", "]", "}" >>,
      << "{", "\"topic\"", ":", "\"\"", ",", "\"search_queries\"", ":", "[", "]",
         ",", "\"focus_areas\"", ":", "[", "]", "}" >> }
StageTexts ==
    [triage |-> TriageTexts, research |-> {<< "notes" >>},
     editor |-> {<< "# Report" >>}, critic |-> {<< "- critique" >>}]
\* what one generate_content call does: it raises e, or it returns a response
\* whose text is a str, the empty str or absent
Outcomes(stage) ==
    [kind : {"raise"}, e : Errors, text : {None}]
    \cup [kind : {"text"}, e : {<< >>},
          text : {Some(x) : x \in StageTexts[stage]} \cup {None, Some(<< >>)}]

-----------------------------------------------------------------------------
(* The prompts of run_research *)

RECURSIVE JoinRepr(_)
\* the items of a list of str as repr() writes them, separated by ", "
JoinRepr(xs) ==
    IF xs = << >> THEN << >>
    ELSE << "'" >> \o Head(xs) \o << "'" >>
         \o (IF Len(xs) > 1 THEN << ", " >> ELSE << >>) \o JoinRepr(Tail(xs))
\* f"{plan.search_queries}"
ReprList(xs) == << "[" >> \o JoinRepr(xs) \o << "]" >>

\* src/app.py:223
triage_prompt(t) == << "Topic: " >> \o t \o << "\nReturn JSON only." >>
\* src/app.py:239-244
notes_prompt(p) ==
    << "Topic: " >> \o p.topic
    \o << "\nSearch Queries: " >> \o ReprList(p.search_queries)
    \o << "\nFocus Areas: " >> \o ReprList(p.focus_areas)
    \o << "\nProvide concise findings." >>
\* src/app.py:262-265
editor_prompt(p, research_notes) ==
    << "Topic: " >> \o p.topic \o << "\n\nResearch Notes:\n" >> \o research_notes
    \o << "\n\nWrite the full report now." >>
\* src/app.py:272
critic_prompt(report_text) == report_text

-----------------------------------------------------------------------------
(* The session and the script *)

\* defaults, src/app.py:38-44 (conversation_id, which nothing reads, is left out)
defaults ==
    [collected_facts |-> << >>, research_done |-> FALSE,
     report_result |-> None, critique_result |-> None]

\* the keys st.session_state holds: every key of defaults, from the first
\* script run on (no code deletes a key)
session_keys == DOMAIN defaults

\* an initialisation that assigns the default whether or not the key is there
SetDefaultAlways(k, current) == defaults[k]
\* `if k not in st.session_state: st.session_state[k] = v`, src/app.py:45-47:
\* the value of key k after it
SetDefault(k, current) == IF k \in session_keys THEN current ELSE defaults[k]

\* the loop of src/app.py:45-47 at the top of a script run
SessionInit ==
    /\ collected_facts' = SetDefault("collected_facts", collected_facts)
    /\ research_done' = SetDefault("research_done", research_done)
    /\ report_result' = SetDefault("report_result", report_result)
    /\ critique_result' = SetDefault("critique_result", critique_result)

\* no run_research call is in progress: the script is waiting for a widget
Resting == {"idle", "done", "aborted"}

LastTwo(xs) == IF Len(xs) > 2 THEN Tail(xs) ELSE xs
Event(trigger) == [trigger |-> trigger, was_done |-> research_done]
\* the harness has applied no helper yet
ExIdle == [op |-> "none", out |-> None]

Init ==
    /\ collected_facts = defaults.collected_facts
    /\ research_done = defaults.research_done
    /\ report_result = defaults.report_result
    /\ critique_result = defaults.critique_result
    /\ topic_input = << >>
    /\ user_topic = << >>
    /\ pc = "idle"
    /\ topic = << >>
    /\ plan = None
    /\ attempt = 0
    /\ raised = "none"
    /\ invocations = << >>
    /\ call = NewCall("triage")
    /\ model_calls = 0
    /\ clock = 0
    /\ event = Event("none")
    /\ run_topics = << >>
    /\ ex_text = None
    /\ ex_out = ExIdle

\* a reset that leaves the findings of the run before in place
ResetSessionKeepFacts ==
    /\ collected_facts' = collected_facts
    /\ research_done' = FALSE
    /\ report_result' = None
    /\ critique_result' = None

\* a reset that leaves the done flag as it is
ResetSessionKeepDone ==
    /\ collected_facts' = << >>
    /\ research_done' = research_done
    /\ report_result' = None
    /\ critique_result' = None

\* run_research's first four statements, src/app.py:212-215
ResetSession ==
    /\ collected_facts' = << >>
    /\ research_done' = FALSE
    /\ report_result' = None
    /\ critique_result' = None

\* run_research(t) up to its first generate_content call, src/app.py:211-223
BeginRun(t) ==
    /\ ResetSession
    /\ topic' = t
    /\ plan' = None
    /\ raised' = "none"
    /\ pc' = "triage"
    /\ attempt' = 0
    /\ invocations' = << NewInvocation("triage", triage_prompt(t)) >>
    /\ call' = NewCall("triage")
    /\ model_calls' = 0
    /\ clock' = clock + 1
    /\ run_topics' = LastTwo(Append(run_topics, t))

\* the Start Research button, enabled by a topic in the text input, and the
\* trigger `if start_button and user_topic`, src/app.py:181-182 and 282-284
StartResearch ==
    /\ pc \in Resting
    /\ clock < MaxRuns
    /\ topic_input # << >>
    /\ user_topic' = topic_input
    /\ event' = Event("start")
    /\ BeginRun(topic_input)
    /\ UNCHANGED <<topic_input, ex_vars>>

\* an example button: user_topic = t, start_button = True, src/app.py:191-194
ExampleResearch ==
    /\ pc \in Resting
    /\ clock < MaxRuns
    /\ \E t \in ex_topics :
        /\ user_topic' = t
        /\ BeginRun(t)
    /\ event' = Event("example")
    /\ UNCHANGED <<topic_input, ex_vars>>

\* the body of `for attempt in range(3)` on one outcome of generate_content:
\* the value run returns, or None when the loop goes on
run_step(name, a, o) ==
    IF o.kind = "text" THEN Some(TextOrSentinel(o.text))
    ELSE IF WillRetry(a) THEN None
    ELSE Some(Diagnostic(name, o.e))

\* the same record when run sleeps after every attempt but the last, also
\* after one that succeeded
LoggedSleepEveryAttempt(c, a, o) ==
    [c EXCEPT !.calls = @ + 1,
              !.sleeps = IF WillRetry(a) THEN Append(@, Backoff(a)) ELSE @,
              !.failed = IF o.kind = "raise" THEN @ + 1 ELSE @,
              !.last_error = IF o.kind = "raise" THEN Some(o.e) ELSE @,
              !.resp = IF o.kind = "text" THEN Some(o.text) ELSE @,
              !.ret = run_step(c.agent, a, o)]

\* the record of the call in progress after that iteration
Logged(c, a, o) ==
    [c EXCEPT !.calls = @ + 1,
              !.sleeps = IF o.kind = "raise" /\ WillRetry(a)
                         THEN Append(@, Backoff(a)) ELSE @,
              !.failed = IF o.kind = "raise" THEN @ + 1 ELSE @,
              !.last_error = IF o.kind = "raise" THEN Some(o.e) ELSE @,
              !.resp = IF o.kind = "text" THEN Some(o.text) ELSE @,
              !.ret = run_step(c.agent, a, o)]

\* the record of the call pc is in: a fresh one when the record kept is that
\* of the call before, which has returned
InProgress == IF call.ret # None THEN NewCall(pc) ELSE call

\* invocations with the call in progress closed by what it returns on o
Closed(o) ==
    [invocations EXCEPT ![Len(invocations)].ret =
                            run_step(AgentName[pc], attempt, o)]

\* an attempt raises and run sleeps and tries again, src/app.py:125-129
Retry ==
    /\ pc \in Stages
    /\ attempt < MaxAttempts
    /\ \E o \in Outcomes(pc) :
        /\ run_step(AgentName[pc], attempt, o) = None
        /\ call' = Logged(InProgress, attempt, o)
    /\ model_calls' = model_calls + 1
    /\ attempt' = attempt + 1
    /\ UNCHANGED <<session_vars, ui_vars, pc, topic, plan, raised, invocations,
                   clock, event, run_topics, ex_vars>>

\* triage_agent.run returns, then the Planning step up to research_agent.run,
\* src/app.py:223-245.  An exception that is no ValidationError leaves
\* run_research and the script run (the trigger has no handler).
TriageReturns ==
    /\ pc = "triage"
    /\ attempt < MaxAttempts
    /\ \E o \in Outcomes(pc), lax \in BOOLEAN :
        /\ run_step(AgentName[pc], attempt, o) # None
        /\ call' = Logged(InProgress, attempt, o)
        /\ LET r == Planning(topic, Get(run_step(AgentName[pc], attempt, o)), lax) IN
           IF r.outcome = "ok"
           THEN /\ plan' = Some(r.plan)
                /\ pc' = "research"
                /\ invocations' =
                       Append(Closed(o), NewInvocation("research", notes_prompt(r.plan)))
                /\ raised' = raised
           ELSE /\ plan' = None
                /\ pc' = "aborted"
                /\ invocations' = Closed(o)
                /\ raised' = r.outcome
    /\ attempt' = 0
    /\ model_calls' = model_calls + 1
    /\ UNCHANGED <<session_vars, ui_vars, topic, clock, event, run_topics, ex_vars>>

\* research_agent.run returns, the finding is stored, src/app.py:245-266
ResearchReturns ==
    /\ pc = "research"
    /\ attempt < MaxAttempts
    /\ \E o \in Outcomes(pc) :
        /\ run_step(AgentName[pc], attempt, o) # None
        /\ call' = Logged(InProgress, attempt, o)
        /\ LET research_notes == Get(run_step(AgentName[pc], attempt, o)) IN
           /\ collected_facts' =
                  Append(collected_facts,
                         [fact |-> research_notes,
                          source |-> "Gemini (summarized findings)",
                          timestamp |-> clock])
           /\ invocations' =
                  Append(Closed(o),
                         NewInvocation("editor", editor_prompt(Get(plan), research_notes)))
    /\ pc' = "editor"
    /\ attempt' = 0
    /\ model_calls' = model_calls + 1
    /\ UNCHANGED <<research_done, report_result, critique_result, ui_vars, topic,
                   plan, raised, clock, event, run_topics, ex_vars>>

\* editor_agent.run returns, the report is stored, src/app.py:266-272
EditorReturns ==
    /\ pc = "editor"
    /\ attempt < MaxAttempts
    /\ \E o \in Outcomes(pc) :
        /\ run_step(AgentName[pc], attempt, o) # None
        /\ call' = Logged(InProgress, attempt, o)
        /\ LET report_text == Get(run_step(AgentName[pc], attempt, o)) IN
           /\ report_result' = Some(report_text)
           /\ invocations' =
                  Append(Closed(o), NewInvocation("critic", critic_prompt(report_text)))
    /\ pc' = "critic"
    /\ attempt' = 0
    /\ model_calls' = model_calls + 1
    /\ UNCHANGED <<collected_facts, research_done, critique_result, ui_vars, topic,
                   plan, raised, clock, event, run_topics, ex_vars>>

\* critic_agent.run returns, the critique is stored and the run is marked
\* done, src/app.py:272-279
CriticReturns ==
    /\ pc = "critic"
    /\ attempt < MaxAttempts
    /\ \E o \in Outcomes(pc) :
        /\ run_step(AgentName[pc], attempt, o) # None
        /\ call' = Logged(InProgress, attempt, o)
        /\ critique_result' = Some(Get(run_step(AgentName[pc], attempt, o)))
        /\ invocations' = Closed(o)
    /\ research_done' = TRUE
    /\ pc' = "done"
    /\ attempt' = 0
    /\ model_calls' = model_calls + 1
    /\ UNCHANGED <<collected_facts, report_result, ui_vars, topic, plan, raised,
                   clock, event, run_topics, ex_vars>>

\* run_research's locals are gone once its script run is over
ForgetRun ==
    /\ pc' = "idle"
    /\ topic' = << >>
    /\ plan' = None
    /\ attempt' = 0
    /\ raised' = "none"
    /\ invocations' = << >>
    /\ call' = NewCall("triage")
    /\ model_calls' = 0

\* a script run that no button triggers: the session initialisation, then the
\* text input holds t, src/app.py:45-47 and 181.  (In a script run that a
\* button triggers the initialisation comes first too and changes nothing the
\* handler does not assign.)
Rerender ==
    /\ pc \in Resting
    /\ \E t \in TopicInputs :
        /\ topic_input' = t
        /\ user_topic' = t
    /\ event' = Event("rerender")
    /\ SessionInit
    /\ ForgetRun
    /\ UNCHANGED <<clock, run_topics, ex_vars>>

\* a Clear Session over the keys of a defaults that has no critique_result
ClearSessionOldKeys ==
    /\ pc \in Resting
    /\ collected_facts' = defaults.collected_facts
    /\ research_done' = defaults.research_done
    /\ report_result' = defaults.report_result
    /\ critique_result' = critique_result
    /\ user_topic' = topic_input
    /\ event' = Event("clear")
    /\ ForgetRun
    /\ UNCHANGED <<topic_input, clock, run_topics, ex_vars>>

\* the Clear Session button, src/app.py:197-201
ClearSession ==
    /\ pc \in Resting
    /\ collected_facts' = defaults.collected_facts
    /\ research_done' = defaults.research_done
    /\ report_result' = defaults.report_result
    /\ critique_result' = defaults.critique_result
    /\ user_topic' = topic_input
    /\ event' = Event("clear")
    /\ ForgetRun
    /\ UNCHANGED <<topic_input, clock, run_topics, ex_vars>>

Next ==
    \/ StartResearch
    \/ ExampleResearch
    \/ Retry
    \/ TriageReturns
    \/ ResearchReturns
    \/ EditorReturns
    \/ CriticReturns
    \/ Rerender
    \/ ClearSession

Spec == Init /\ [][Next]_vars

-----------------------------------------------------------------------------
(* The helpers on their own: extract_json applied to every text of at most *)
(* MaxPieces pieces                                                        *)

\* the number of pieces an input text is put together from
MaxPieces == 5

Obj == << "{", "\"k\"", ":", "1", "}" >>
ExPieces ==
    { Fence, << "json" >>, << " " >>, << "{" >>, << "}" >>, << "x" >>, Obj,
      Fence \o Obj \o Fence }

RECURSIVE Concat(_)
Concat(ps) == IF ps = << >> THEN << >> ELSE Head(ps) \o Concat(Tail(ps))

ExTexts == {Concat(f) : f \in UNION {[1..n -> ExPieces] : n \in 0..MaxPieces}}

InitExtract ==
    /\ collected_facts = defaults.collected_facts
    /\ research_done = defaults.research_done
    /\ report_result = defaults.report_result
    /\ critique_result = defaults.critique_result
    /\ topic_input = << >>
    /\ user_topic = << >>
    /\ pc = "idle"
    /\ topic = << >>
    /\ plan = None
    /\ attempt = 0
    /\ raised = "none"
    /\ invocations = << >>
    /\ call = NewCall("triage")
    /\ model_calls = 0
    /\ clock = 0
    /\ event = Event("none")
    /\ run_topics = << >>
    /\ ex_text \in {Some(x) : x \in ExTexts} \cup {None}
    /\ ex_out = ExIdle

\* extract_json(ex_text)
CallExtractJson ==
    /\ ex_out.op = "none"
    /\ ex_out' = [op |-> "extract_json", out |-> extract_json(ex_text)]
    /\ UNCHANGED <<session_vars, ui_vars, run_vars, hist_vars, ex_text>>

NextExtract == CallExtractJson

SpecExtract == InitExtract /\ [][NextExtract]_vars

-----------------------------------------------------------------------------
(* safe_json_parse applied to every text of at most MaxParsePieces pieces, *)
(* with either of two fallback objects                                     *)

\* the number of pieces an input text of safe_json_parse is put together from
MaxParsePieces == 4

\* an object with a trailing comma
BadObj == << "{", "\"k\"", ":", "1", ",", "}" >>
\* a fenced block that holds an object with an unquoted key
FencedBare == Fence \o << "{", "x", "}" >> \o Fence
\* the start and the end of an object whose one value is a string
StrOpen == << "{", "\"k\"", ":", QT >>
StrClose == << QT, "}" >>
ParsePieces ==
    { Fence, Obj, BadObj, FencedBare, StrOpen, StrClose, << "1" >>, << "x" >>,
      << " " >> }
ParseTexts == {Concat(f) : f \in UNION {[1..n -> ParsePieces] : n \in 0..MaxParsePieces}}
Fallbacks == {fallback_plan(t) : t \in Topics}

InitParse ==
    /\ collected_facts = defaults.collected_facts
    /\ research_done = defaults.research_done
    /\ report_result = defaults.report_result
    /\ critique_result = defaults.critique_result
    /\ topic_input = << >>
    /\ user_topic = << >>
    /\ pc = "idle"
    /\ topic = << >>
    /\ plan = None
    /\ attempt = 0
    /\ raised = "none"
    /\ invocations = << >>
    /\ call = NewCall("triage")
    /\ model_calls = 0
    /\ clock = 0
    /\ event = Event("none")
    /\ run_topics = << >>
    /\ ex_text \in {Some(x) : x \in ParseTexts} \cup {None}
    /\ ex_out = ExIdle

\* safe_json_parse(ex_text, fallback)
CallSafeJsonParse ==
    /\ ex_out.op = "none"
    /\ \E fallback \in Fallbacks :
        ex_out' = [op |-> "safe_json_parse", out |-> None, fallback |-> fallback,
                   val |-> safe_json_parse(ex_text, fallback)]
    /\ UNCHANGED <<session_vars, ui_vars, run_vars, hist_vars, ex_text>>

NextParse == CallSafeJsonParse

SpecParse == InitParse /\ [][NextParse]_vars

-----------------------------------------------------------------------------
(* Claims about extract_json *)

\* the starts, left to right, of the fences of text: the runs of exactly three
\* backticks
RECURSIVE FencesFrom(_, _)
FencesFrom(text, i) ==
    IF i > Len(text) THEN << >>
    ELSE IF FenceAt(text, i) /\ SymAt(text, i - 1) # BT /\ SymAt(text, i + 3) # BT
         THEN << i >> \o FencesFrom(text, i + 3)
    ELSE FencesFrom(text, i + 1)

\* the index of the last symbol before c that is not whitespace
RECURSIVE LastBefore(_, _)
LastBefore(text, c) ==
    IF c > 1 /\ IsSpace(text[c - 1]) THEN LastBefore(text, c - 1) ELSE c - 1

\* the fenced blocks of text (its ``` paired off in order) that hold a brace
\* delimited span and nothing else but an optional json tag and whitespace:
\* << p, q >>, the span's first and last index
FencedSpans(text) ==
    LET fs == FencesFrom(text, 1) IN
    { << GroupStart(text, fs[2 * n - 1]), LastBefore(text, fs[2 * n]) >> :
        n \in { m \in 1..Len(fs) :
                  /\ 2 * m <= Len(fs)
                  /\ GroupStart(text, fs[2 * m - 1]) < LastBefore(text, fs[2 * m])
                  /\ text[GroupStart(text, fs[2 * m - 1])] = "{"
                  /\ text[LastBefore(text, fs[2 * m])] = "}" } }

\* the first of them
FirstFencedSpan(text) ==
    CHOOSE s \in FencedSpans(text) : \A r \in FencedSpans(text) : s[1] <= r[1]

IsJsonObject(t) ==
    /\ ~json_loads(Some(t)).raised
    /\ json_loads(Some(t)).val.t = "dict"

\* every backtick of text stands in a fence
CleanFences(text) ==
    \A i \in 1..Len(text) :
        text[i] = BT => \E k \in 1..Len(FencesFrom(text, 1)) :
                           i \in FencesFrom(text, 1)[k]..(FencesFrom(text, 1)[k] + 2)

\* C9: when the first fenced block of a text that holds a brace delimited span
\* holds a valid JSON object, extract_json returns exactly the text of that
\* object, whatever surrounds the block (stated for the texts whose backticks
\* all stand in runs of exactly three).
C9_FencedObjectReturned ==
    (/\ ex_out.op = "extract_json"
     /\ ex_text # None
     /\ CleanFences(Get(ex_text))
     /\ FencedSpans(Get(ex_text)) # {}
     /\ IsJsonObject(SubSeq(Get(ex_text), FirstFencedSpan(Get(ex_text))[1],
                            FirstFencedSpan(Get(ex_text))[2])))
    => ex_out.out = Some(SubSeq(Get(ex_text), FirstFencedSpan(Get(ex_text))[1],
                                FirstFencedSpan(Get(ex_text))[2]))

NoFence(text) == \A i \in 1..Len(text) : ~FenceAt(text, i)
Opens(text) == {i \in 1..Len(text) : text[i] = "{"}
Closes(text) == {i \in 1..Len(text) : text[i] = "}"}

\* C10: on a text with no code fence extract_json returns the span from the
\* first "{" to the last "}" (greedy, braces are not counted); a text with
\* exactly one brace delimited span gives that span, a text with none gives
\* None.
C10_FirstBraceToLastBrace ==
    (ex_out.op = "extract_json" /\ ex_text # None /\ NoFence(Get(ex_text)))
    => LET text == Get(ex_text) IN
       IF Opens(text) # {} /\ Closes(text) # {} /\ Min(Opens(text)) < Max(Closes(text))
       THEN /\ ex_out.out = Some(SubSeq(text, Min(Opens(text)), Max(Closes(text))))
            /\ (Cardinality(Opens(text)) = 1 /\ Cardinality(Closes(text)) = 1)
               => /\ Get(ex_out.out)[1] = "{"
                  /\ Get(ex_out.out)[Len(Get(ex_out.out))] = "}"
                  /\ \A k \in 2..(Len(Get(ex_out.out)) - 1) :
                         Get(ex_out.out)[k] \notin {"{", "}"}
       ELSE ex_out.out = None

\* extract_json has returned a span that holds a "}" and a later "{" inside it:
\* the greedy match ran past the first closing brace
C10_Witness ==
    /\ ex_out.op = "extract_json"
    /\ ex_text # None
    /\ NoFence(Get(ex_text))
    /\ ex_out.out # None
    /\ \E i, j \in 2..(Len(Get(ex_out.out)) - 1) :
           i < j /\ Get(ex_out.out)[i] = "}" /\ Get(ex_out.out)[j] = "{"

-----------------------------------------------------------------------------
(* Claims about GeminiAgent.run and run_research *)

\* what the n-th agent.run call of the run returned, None before it returns
StageRet(n) == IF Len(invocations) >= n THEN invocations[n].ret ELSE None
TriageRaw == StageRet(1)
\* the text safe_json_parse hands to json.loads
Payload(raw) == IF Truthy(extract_json(raw)) THEN extract_json(raw) ELSE raw
FallbackPlanOf(t) ==
    [topic |-> t, search_queries |-> << t >>,
     focus_areas |-> << << "General overview" >> >>]
IsDiagnostic(ret) == ret # None /\ Get(ret)[1] = "(!) Error from "

\* C1: when generate_content raises on every attempt, run makes exactly 3
\* attempts, sleeps 2 s after the first failure and 4 s after the second and
\* not after the third, and returns (never raises) a diagnostic string that
\* embeds the agent's name and the last error.
C1_AlwaysFailingRun ==
    /\ call.calls <= 3
    /\ (call.failed = call.calls /\ call.ret = None)
       => /\ call.calls < 3
          /\ call.sleeps = SubSeq(<< 2, 4 >>, 1, call.calls)
    /\ (call.failed = call.calls /\ call.ret # None)
       => /\ call.calls = 3
          /\ call.sleeps = << 2, 4 >>
          /\ Get(call.ret) =
                 << "(!) Error from ", call.agent, ": " >> \o Get(call.last_error)
          /\ Contains(Get(call.ret), << call.agent >>)
          /\ Contains(Get(call.ret), Get(call.last_error))

\* a run call has returned after three failed attempts
C1_Witness == call.ret # None /\ call.failed = 3 /\ call.calls = 3

\* C2: whatever text Triage returns, the Planning step raises nothing,
\* safe_json_parse returns a mapping and the plan is the validated parse of
\* the text or the fallback plan.
C2_PlanningNeverRaises ==
    TriageRaw # None
    => /\ raised = "none"
       /\ pc # "aborted"
       /\ safe_json_parse(TriageRaw, fallback_plan(topic)).t = "dict"
       /\ \/ plan = Some(FallbackPlanOf(topic))
          \/ \E lax \in BOOLEAN :
               LET r == ResearchPlan(safe_json_parse(TriageRaw, fallback_plan(topic)), lax)
               IN  r.outcome = "ok" /\ plan = Some(r.plan)

\* the run goes on with the fallback plan and, once done, holds a report and
\* a critique that are not empty
FallbackRun ==
    /\ pc \in {"research", "editor", "critic", "done"}
    /\ pc \in Stages => attempt < 3
    /\ plan = Some(FallbackPlanOf(topic))
    /\ pc = "done" => /\ research_done
                      /\ Truthy(report_result)
                      /\ Truthy(critique_result)

\* C3 as stated: when the text Triage returns is not valid JSON, the run has
\* the fallback plan and reaches Done with a report and a critique.
C3_InvalidTextFallsBack ==
    (TriageRaw # None /\ json_loads(TriageRaw).raised) => FallbackRun

\* C3, amended: when the payload taken from Triage's text (the span
\* extract_json returns, else the whole text) is not valid JSON, the run has
\* the fallback plan and reaches Done with a report and a critique.
C3_InvalidPayloadFallsBack ==
    (TriageRaw # None /\ json_loads(Payload(TriageRaw)).raised) => FallbackRun

\* a run on the topic of the spec's example is done after a Triage text whose
\* payload is not valid JSON
C3_Witness ==
    /\ pc = "done"
    /\ topic = << "Solar Power in Rural India" >>
    /\ TriageRaw # None
    /\ json_loads(Payload(TriageRaw)).raised
    /\ ~IsDiagnostic(TriageRaw)

\* C4: whatever model calls fail, the run does not halt: a stage whose three
\* attempts fail hands its diagnostic placeholder to the next stage, and the
\* run ends in Done after at least 4 and at most 12 model calls, at most 3 a
\* stage.
C4_RunReachesDone ==
    /\ pc # "aborted"
    /\ call.calls <= 3
    /\ model_calls <= 12
    /\ pc = "done" => model_calls >= 4 /\ research_done
    /\ \A n \in 2..3 :
        (IsDiagnostic(StageRet(n)) /\ Len(invocations) > n)
        => Contains(invocations[n + 1].prompt, Get(StageRet(n)))

\* C5: when an error is raised during a run, the trigger catches it and the
\* session ends done with a report that holds the error text; no triggered run
\* ends with the session not done.
C5_TriggerCatches ==
    (event.trigger \in {"start", "example"} /\ pc \in {"done", "aborted"})
    => /\ research_done
       /\ raised # "none"
          => report_result # None /\ Contains(Get(report_result), << raised >>)

\* C6: once a second run has started the session shows nothing of the first:
\* the findings are exactly the finding the second run has stored so far, the
\* report and the critique are what its Editor and Critic returned, and when
\* it is done there is exactly one finding.
C6_SecondRunOverwrites ==
    (clock >= 2 /\ pc # "idle")
    => /\ collected_facts =
              IF StageRet(2) # None
              THEN << [fact |-> Get(StageRet(2)),
                       source |-> "Gemini (summarized findings)",
                       timestamp |-> clock] >>
              ELSE << >>
       /\ report_result = StageRet(3)
       /\ critique_result = StageRet(4)
       /\ pc = "done" => /\ Len(collected_facts) = 1
                         /\ report_result # None
                         /\ critique_result # None

\* a second run, on another topic than the first and started on a session the
\* first had marked done, is done
C6_Witness ==
    /\ clock = 2
    /\ pc = "done"
    /\ event.was_done
    /\ Len(run_topics) = 2
    /\ run_topics[1] # run_topics[2]

\* C7: Clear Session leaves the session equal to the documented default: no
\* findings, no report, no critique, not done.
C7_ClearRestoresDefault ==
    event.trigger = "clear"
    => /\ collected_facts = << >>
       /\ report_result = None
       /\ critique_result = None
       /\ research_done = FALSE

\* Clear Session was pressed on a session a run had marked done
C7_Witness == event.trigger = "clear" /\ event.was_done /\ clock >= 1

\* C8: every plan the Planning step produces has a topic, search_queries and
\* focus_areas that are not empty.
C8_PlanNeverEmpty ==
    plan # None
    => /\ Get(plan).topic # << >>
       /\ Get(plan).search_queries # << >>
       /\ Get(plan).focus_areas # << >>

-----------------------------------------------------------------------------
(* Claims about safe_json_parse *)

\* C11: on a text with no recognizable JSON-like span (extract_json finds no
\* fenced object and no brace span), and on a text whose candidate is
\* malformed JSON, safe_json_parse returns the fallback it was given, as it
\* was given (and raises nothing).
C11_NoSpanOrMalformedGivesFallback ==
    (/\ ex_out.op = "safe_json_parse"
     /\ \/ extract_json(ex_text) = None
        \/ json_loads(Payload(ex_text)).raised)
    => ex_out.val = ex_out.fallback

\* the fenced object of the text is found and is not valid JSON
BadFencedCandidate(text) ==
    /\ text # None
    /\ FenceSearch(Get(text)) # None
    /\ json_loads(FenceSearch(Get(text))).raised

\* C16: safe_json_parse commits to one candidate a call: when a fenced object
\* is found and its text is not valid JSON, the result is the fallback, also
\* when the brace span of the text or the whole text is a valid JSON object;
\* no second candidate is tried.
C16_SingleCandidate ==
    (ex_out.op = "safe_json_parse" /\ BadFencedCandidate(ex_text))
    => ex_out.val = ex_out.fallback

\* safe_json_parse has returned on a text whose fenced object is malformed
\* and whose brace span is a valid JSON object
C16_Witness ==
    /\ ex_out.op = "safe_json_parse"
    /\ BadFencedCandidate(ex_text)
    /\ BraceSearch(Get(ex_text)) # None
    /\ IsJsonObject(Get(BraceSearch(Get(ex_text))))

-----------------------------------------------------------------------------
(* More claims about GeminiAgent.run *)

\* C12: run never returns the empty str or None: an attempt that succeeds
\* with an empty or absent response text returns the sentinel "No response.",
\* so every stage output the session holds (finding, report, critique) is a
\* str that is not empty.
C12_RunNeverReturnsEmpty ==
    /\ \A n \in 1..Len(invocations) :
           invocations[n].ret # None => Get(invocations[n].ret) # << >>
    /\ (call.resp # None /\ ~Truthy(Get(call.resp)))
       => call.ret = Some(<< "No response." >>)
    /\ \A k \in 1..Len(collected_facts) : collected_facts[k].fact # << >>
    /\ report_result # None => Get(report_result) # << >>
    /\ critique_result # None => Get(critique_result) # << >>

\* a run is done whose Research and Critic calls got an empty or absent
\* response text: the finding and the critique are the sentinel
C12_Witness ==
    /\ pc = "done"
    /\ call.resp # None
    /\ ~Truthy(Get(call.resp))
    /\ critique_result = Some(<< "No response." >>)
    /\ Len(collected_facts) = 1
    /\ collected_facts[1].fact = << "No response." >>

\* C19: run stops at the first attempt that does not raise: when that is
\* attempt k (1 <= k <= 3), exactly k generate_content calls are made, the
\* sleeps are 2*i seconds after each failed attempt i < k and none after
\* attempt k, and run returns that attempt's response text, or the sentinel
\* when the text is empty or absent, never the diagnostic placeholder.
C19_StopsAtFirstSuccess ==
    call.resp # None
    => /\ call.ret # None
       /\ call.calls \in 1..3
       /\ call.failed = call.calls - 1
       /\ call.sleeps = [i \in 1..(call.calls - 1) |-> 2 * i]
       /\ call.ret = IF Truthy(Get(call.resp)) THEN Get(call.resp)
                     ELSE Some(<< "No response." >>)
       /\ ~IsDiagnostic(call.ret)

\* a run call has returned the response text of its third attempt, after two
\* that raised
C19_Witness ==
    /\ call.resp # None
    /\ Truthy(Get(call.resp))
    /\ call.calls = 3
    /\ call.failed = 2

-----------------------------------------------------------------------------
(* More claims about run_research *)

StageOrder == << "Triage Agent", "Research Agent", "Editor Agent", "Critic Agent" >>

\* the agent.run calls of the run so far are Triage, Research, Editor, Critic
\* in that order, none twice, each made after the one before has returned
InvokedInOrder ==
    /\ Len(invocations) <= 4
    /\ \A n \in 1..Len(invocations) :
           /\ invocations[n].agent = StageOrder[n]
           /\ n < Len(invocations) => invocations[n].ret # None

\* Research's prompt embeds the validated plan, Editor's the plan topic and
\* what Research returned, Critic's is the report text and nothing else
PromptsEmbed ==
    /\ Len(invocations) >= 2
       => /\ plan # None
          /\ Contains(invocations[2].prompt, Get(plan).topic)
          /\ Contains(invocations[2].prompt, ReprList(Get(plan).search_queries))
          /\ Contains(invocations[2].prompt, ReprList(Get(plan).focus_areas))
    /\ Len(invocations) >= 3
       => /\ Contains(invocations[3].prompt, << "Topic: " >> \o Get(plan).topic)
          /\ Contains(invocations[3].prompt, Get(StageRet(2)))
    /\ Len(invocations) >= 4
       => /\ invocations[4].prompt = Get(StageRet(3))
          /\ report_result = StageRet(3)

\* C13: in every run the four roles are invoked in the order Triage, Research,
\* Editor, Critic, each exactly once and only after the stage before has
\* returned; Research's prompt embeds the validated plan, Editor's the plan
\* topic and the Research output, Critic's is exactly the report text; done is
\* set only after the critique is stored.
C13_StagesInOrder ==
    /\ InvokedInOrder
    /\ PromptsEmbed
    /\ research_done => critique_result # None
    /\ (research_done /\ pc = "done") => critique_result = StageRet(4)
    /\ pc \in {"done", "aborted"}
       => /\ Len(invocations) = 4
          /\ \A n \in 1..4 : invocations[n].ret # None

-----------------------------------------------------------------------------
(* The Report tab, src/app.py:289-317, and Show Report, src/main.py:201-212 *)

\* the characters of the topics and of the literal "Report": str.title and
\* str.replace work on characters, not on lexemes
Spell ==
    ("Solar Power in Rural India" :>
     <<
        "S", "o", "l", "a", "r", " ", "P", "o", "w", "e", "r", " ", "i", "n",
        " ", "R", "u", "r", "a", "l", " ", "I", "n", "d", "i", "a" >>) @@
    ("best shops in Agra" :>
     <<
        "b", "e", "s", "t", " ", "s", "h", "o", "p", "s", " ", "i", "n", " ",
        "A", "g", "r", "a" >>) @@
    ("What are the best businesses for young generation in India to start and earn?" :>
     <<
        "W", "h", "a", "t", " ", "a", "r", "e", " ", "t", "h", "e", " ", "b",
        "e", "s", "t", " ", "b", "u", "s", "i", "n", "e", "s", "s", "e", "s",
        " ", "f", "o", "r", " ", "y", "o", "u", "n", "g", " ", "g", "e", "n",
        "e", "r", "a", "t", "i", "o", "n", " ", "i", "n", " ", "I", "n", "d",
        "i", "a", " ", "t", "o", " ", "s", "t", "a", "r", "t", " ", "a", "n",
        "d", " ", "e", "a", "r", "n", "?" >>) @@
    ("AI for 3d maps" :>
     <<
        "A", "I", " ", "f", "o", "r", " ", "3", "d", " ", "m", "a", "p", "s" >>) @@
    ("Report" :>
     <<
        "R", "e", "p", "o", "r", "t" >>)
RECURSIVE Chars(_)
Chars(text) == IF text = << >> THEN << >> ELSE Spell[Head(text)] \o Chars(Tail(text))

LowerCase == << "a", "b", "c", "d", "e", "f", "g", "h", "i", "j", "k", "l", "m", "n",
               "o", "p", "q", "r", "s", "t", "u", "v", "w", "x", "y", "z" >>
UpperCase == << "A", "B", "C", "D", "E", "F", "G", "H", "I", "J", "K", "L", "M", "N",
               "O", "P", "Q", "R", "S", "T", "U", "V", "W", "X", "Y", "Z" >>
IsLower(c) == \E i \in 1..26 : LowerCase[i] = c
IsUpper(c) == \E i \in 1..26 : UpperCase[i] = c
\* a cased character: one that has an upper and a lower case form
IsCased(c) == IsLower(c) \/ IsUpper(c)
ToUpper(c) == IF IsLower(c) THEN UpperCase[CHOOSE i \in 1..26 : LowerCase[i] = c] ELSE c
ToLower(c) == IF IsUpper(c) THEN LowerCase[CHOOSE i \in 1..26 : UpperCase[i] = c] ELSE c

\* str.title(): a character that follows a cased one is put in lower case,
\* any other in upper case
str_title(cs) ==
    [i \in 1..Len(cs) |->
        IF i > 1 /\ IsCased(cs[i - 1]) THEN ToLower(cs[i]) ELSE ToUpper(cs[i])]
\* str.replace(' ', '_')
str_replace(cs) == [i \in 1..Len(cs) |-> IF cs[i] = " " THEN "_" ELSE cs[i]]

\* `st.session_state.get("research_done") and st.session_state.get("report_result")`
report_shown == research_done /\ Truthy(report_result)
\* src/app.py:291
title_text == str_title(IF user_topic # << >> THEN Chars(user_topic)
                        ELSE Chars(<< "Report" >>))
\* src/app.py:307 and :314, the second when there is a critique
report_file_name == str_replace(title_text) \o << ".", "m", "d" >>
critique_file_name ==
    IF Truthy(critique_result)
    THEN Some(str_replace(title_text)
              \o << "_", "C", "r", "i", "t", "i", "q", "u", "e", ".", "m", "d" >>)
    ELSE None
\* src/main.py:204 and :209
main_title == str_title(Chars(user_topic))
main_file_name == str_replace(Chars(user_topic)) \o << ".", "m", "d" >>

\* The Report tab rendered on every topic the input may hold and every
\* session a script run of src/app.py or of src/main.py may end with.

ReportTopics == Topics \cup ex_topics \cup {<< >>, << "AI for 3d maps" >>}
ReportTexts ==
    { << "# Report" >>, << "# Report", "\n", "text" >>, NoResponse,
      Diagnostic("Editor Agent", << "503 unavailable" >>) }
CritiqueTexts == {<< "- critique" >>, NoResponse}
\* session_vars at the end of a script run.  The session of src/main.py has
\* no critique_result (src/main.py:28-33): .get("critique_result") is None.
EndSessions ==
    {<< << >>, FALSE, None, None >>}
    \cup {<< << [fact |-> << "notes" >>, source |-> "Gemini (summarized findings)",
                 timestamp |-> 1] >>, TRUE, Some(r), c >> :
            r \in ReportTexts, c \in {Some(x) : x \in CritiqueTexts} \cup {None}}

InitReport ==
    /\ \E s \in EndSessions :
        /\ collected_facts = s[1]
        /\ research_done = s[2]
        /\ report_result = s[3]
        /\ critique_result = s[4]
    /\ user_topic \in ReportTopics
    /\ topic_input = << >>
    /\ pc = "idle"
    /\ topic = << >>
    /\ plan = None
    /\ attempt = 0
    /\ raised = "none"
    /\ invocations = << >>
    /\ call = NewCall("triage")
    /\ model_calls = 0
    /\ clock = 0
    /\ event = Event("none")
    /\ run_topics = << >>
    /\ ex_text = None
    /\ ex_out = ExIdle

\* `with tab_report:` of src/app.py:289-317: the title and the file names of
\* the download buttons, None for what is not rendered
RenderReportTab ==
    /\ ex_out.op = "none"
    /\ research_done => critique_result # None
    /\ ex_out' = [op |-> "Report tab", out |-> None, shown |-> report_shown,
                  title |-> IF report_shown THEN Some(title_text) ELSE None,
                  file_name |-> IF report_shown THEN Some(report_file_name) ELSE None,
                  critique_file_name |->
                      IF report_shown THEN critique_file_name ELSE None]
    /\ UNCHANGED <<session_vars, ui_vars, run_vars, hist_vars, ex_text>>

\* `with tab2:` of src/main.py:201-212, which has one download button
ShowReport ==
    /\ ex_out.op = "none"
    /\ critique_result = None
    /\ ex_out' = [op |-> "Show Report", out |-> None, shown |-> report_shown,
                  title |-> IF report_shown THEN Some(main_title) ELSE None,
                  file_name |-> IF report_shown THEN Some(main_file_name) ELSE None,
                  critique_file_name |-> None]
    /\ UNCHANGED <<session_vars, ui_vars, run_vars, hist_vars, ex_text>>

NextReport == RenderReportTab \/ ShowReport

SpecReport == InitReport /\ [][NextReport]_vars

-----------------------------------------------------------------------------
(* Claims about the Report tab *)

\* the topic title-cased, every space replaced by an underscore
ExportBase(t) == str_replace(str_title(Chars(t)))

\* C14: the base name of the exported .md report file is the topic
\* title-cased with every space replaced by an underscore (the topic "best
\* shops in Agra" gives Best_Shops_In_Agra), and the critique file has the
\* same base name.
C14_ExportBaseName ==
    (ex_out.op \in {"Report tab", "Show Report"} /\ ex_out.shown /\ user_topic # << >>)
    => /\ ex_out.file_name = Some(ExportBase(user_topic) \o << ".", "m", "d" >>)
       /\ user_topic = << "best shops in Agra" >>
          => ex_out.file_name =
                 Some(<< "B", "e", "s", "t", "_", "S", "h", "o", "p", "s", "_", "I",
                         "n", "_", "A", "g", "r", "a", ".", "m", "d" >>)
       /\ ex_out.critique_file_name # None
          => ex_out.critique_file_name =
                 Some(ExportBase(user_topic)
                      \o << "_", "C", "r", "i", "t", "i", "q", "u", "e", ".", "m", "d" >>)

-----------------------------------------------------------------------------
(* Claims about the session *)

\* C15: once a run has reached Done, a re-render that neither starts a run
\* nor clears the session leaves the findings, the report, the critique and
\* done as they are (the session initialisation fills only the keys that are
\* missing); so does any number of them.
C15_RerenderKeepsSession ==
    [][(research_done /\ Rerender)
       => /\ collected_facts' = collected_facts
          /\ report_result' = report_result
          /\ critique_result' = critique_result
          /\ research_done' = research_done]_vars

\* a re-render has happened on a session that a run had marked done, and the
\* session still holds the run's finding, report and critique
C15_Witness ==
    /\ event.trigger = "rerender"
    /\ event.was_done
    /\ research_done
    /\ Len(collected_facts) = 1
    /\ Truthy(report_result)
    /\ Truthy(critique_result)

\* C17: in every reachable session state research_done implies that the
\* report and the critique are set and that there is exactly one finding;
\* research_done is false from the reset at the start of a run until the
\* critique has been stored.
C17_DoneImpliesComplete ==
    /\ research_done
       => /\ report_result # None
          /\ critique_result # None
          /\ Len(collected_facts) = 1
    /\ pc \in Stages \cup {"aborted"} => ~research_done
    /\ pc \in Stages => critique_result = None
    /\ pc = "done" => research_done

\* a run started on a session that was marked done has stored its critique
\* and marked the session done again
C17_Witness ==
    /\ pc = "done"
    /\ research_done
    /\ event.was_done
    /\ critique_result = StageRet(4)
    /\ critique_result # None

\* the topic of the latest run started: the run that produced what the
\* session holds
ProducingTopic == run_topics[Len(run_topics)]

\* C18: whenever the Report tab shows a stored report, the title and the
\* download file names are derived from the topic of the run that produced
\* the report, also after the topic input was changed or emptied without a
\* new run.
C18_TitleFromProducingRun ==
    (pc \in Resting /\ report_shown)
    => /\ title_text = str_title(Chars(ProducingTopic))
       /\ report_file_name = ExportBase(ProducingTopic) \o << ".", "m", "d" >>
       /\ critique_file_name =
              Some(ExportBase(ProducingTopic)
                   \o << "_", "C", "r", "i", "t", "i", "q", "u", "e", ".", "m", "d" >>)

=============================================================================
